---- MODULE Spec2Model ----
(***************************************************************************)
(* A model of the doublet double-buffering primitive (src/src/lib.rs and   *)
(* src/src/toggle.rs): the packed toggle word, the remaining_readers       *)
(* ("drain") counter, the two buffers, and the Reader / ReadGuard and      *)
(* Writer / WriteGuard protocols, one action per atomic step of the code.  *)
(* Every atomic operation is SeqCst in the source, so the interleaving of  *)
(* atomic steps is the memory model.                                       *)
(***************************************************************************)
EXTENDS Integers, Naturals, Sequences, FiniteSets, TLC

\* ---------------------------------------------------------------- bounds
\* Width of usize in bits (64 or 32 in the source, scaled down here).
WordBits == 3
\* Number of Reader handles (OwnedDoublet::reader / Reader::from_raw_parts).
NReaders == 2
\* Number of Writer views over the same header (Writer::from_raw_parts).
NWriters == 2
\* Length of each buffer, in cells.
BufSize == 2
\* Number of values a buffer cell can hold (256 for a u8, scaled down).
ByteBase == 2
\* Number of rounds the soak writer makes before its deadline.
MaxCount == 3
\* Threads that call OwnedDoublet::take_writer and OwnedDoublet::reader.
NCallers == 3
\* Calls that take the has_writer Mutex in one run.
MaxCalls == 4
\* Width of usize in the size arithmetic of raw_size and from_raw_parts.
SizeBits == 6

Modulus == 2 ^ WordBits
\* usize::max_value()
MAX == Modulus - 1
\* The top bit of a word, !State::MASK.
TopBit == 2 ^ (WordBits - 1)
\* State::MASK
MASK == TopBit - 1

Readers == 1 .. NReaders
Writers == 1 .. NWriters
Cells == 1 .. BufSize
Bytes == 0 .. (ByteBase - 1)
Sides == {"Left", "Right"}
Callers == 1 .. NCallers

\* ------------------------------------------------------------- toggle.rs
\* impl Not for Side
Not(side) == IF side = "Left" THEN "Right" ELSE "Left"

\* State::from_usize: the side is the top bit, the count the bits under it.
from_usize(v) ==
  [side |-> IF (v \div TopBit) % 2 = 0 THEN "Left" ELSE "Right",
   count |-> v % TopBit]

\* A to_usize that returns the count and drops the side.
to_usize_count_only(s) == s.count

\* State::to_usize: the count, with the top bit or-ed in for Side::Right.
to_usize(s) ==
  IF s.side = "Right" /\ (s.count \div TopBit) % 2 = 0
  THEN s.count + TopBit
  ELSE s.count

\* AtomicUsize::compare_and_swap: the word after the operation.
cas_word(cur, expected, new) == IF cur = expected THEN new ELSE cur

\* usize subtraction a - b: the difference, or on underflow either a panic
\* (-1, overflow checks on) or the wrapped value (overflow checks off).
usize_sub(a, b) ==
  IF a >= b THEN {a - b} ELSE {-1, (a + Modulus - b) % Modulus}

\* ----------------------------------------------------------------- state
VARIABLES
  toggle,        \* Header.toggle, the packed word
  drain,         \* Header.remaining_readers
  buf,           \* left_buffer / right_buffer: Side -> Cells -> byte
  rpc,           \* where each reader thread is
  roriginal,     \* a reader's local `original` (try_lock, drop)
  reading_from,  \* ReadGuard.reading_from
  wpc,           \* where each writer thread is
  writer_opt,    \* WriteGuard.writer: "Some" or "None"
  writing_to,    \* WriteGuard.writing_to
  woriginal,     \* activate's local `original`
  prev_readers,  \* activate's local `prev_readers`
  committed,     \* history: the buffer contents published by the last swap
  snap,          \* history: `committed` at a guard's acquiring CAS
  stale,         \* history: guards attached to the deactivated side at the swap
  rloaded,       \* history: the raw word a reader's try_lock loaded
  lockSide,      \* history: the active side at a writer's acquiring CAS
  count,         \* soak.rs write(): local `count`
  wdone,         \* soak.rs write(): cells copy_from_slice has stored so far
  last,          \* soak.rs read(): local `last`
  attempts,      \* history: compare-and-swaps activate's loop has made
  pstored,       \* ToggleCount: the States passed in, each with its word
  ploaded,       \* ToggleCount: the word read and the State returned
  rawN,          \* raw.rs: the buffer size passed to raw_size
  rawTotal,      \* raw.rs: storage.len(), the size of the zeroed region
  rawKind,       \* raw.rs: which from_raw_parts the test calls
  rawView,       \* raw.rs: what from_raw_parts returned
  rawLock,       \* raw.rs: guard.len() of the first try_lock
  has_writer,    \* OwnedDoublet.has_writer, the bool inside the Mutex
  mutex,         \* the thread holding the has_writer Mutex, 0 when free
  tpc,           \* where each take_writer / reader caller is
  tres,          \* what the caller's call returned
  lockSeq,       \* history: how many times the Mutex has been locked
  tord           \* history: the ordinal of the caller's lock

soakVars == <<count, wdone, last>>
packVars == <<pstored, ploaded>>
rawVars == <<rawN, rawTotal, rawKind, rawView, rawLock>>
ownedVars == <<has_writer, mutex, tpc, tres, lockSeq, tord>>
\* The variables of the other specifications.
sideVars == <<packVars, rawVars, ownedVars>>
\* What the steps of activate leave alone besides the header and the locals.
auxVars == <<soakVars, sideVars>>
\* What every other step of the protocol leaves alone as well.
restVars == <<attempts, auxVars>>
vars == <<toggle, drain, buf, rpc, roriginal, reading_from, wpc, writer_opt,
          writing_to, woriginal, prev_readers, committed, snap, stale,
          rloaded, lockSide, count, wdone, last, attempts, pstored, ploaded,
          rawN, rawTotal, rawKind, rawView, rawLock, has_writer, mutex, tpc,
          tres, lockSeq, tord>>

ZeroBuf == [i \in Cells |-> 0]
\* The value a local holds while it is out of scope.
NoState == [side |-> "Left", count |-> 0]

\* OwnedDoublet::new: a zero header (Left, count 0; drain 0), zeroed buffers.
Init ==
  /\ toggle = 0
  /\ drain = 0
  /\ buf = [s \in Sides |-> ZeroBuf]
  /\ rpc = [r \in Readers |-> "idle"]
  /\ roriginal = [r \in Readers |-> NoState]
  /\ reading_from = [r \in Readers |-> "Left"]
  /\ wpc = [w \in Writers |-> "idle"]
  /\ writer_opt = [w \in Writers |-> "None"]
  /\ writing_to = [w \in Writers |-> "Left"]
  /\ woriginal = [w \in Writers |-> NoState]
  /\ prev_readers = [w \in Writers |-> 0]
  /\ committed = ZeroBuf
  /\ snap = [r \in Readers |-> ZeroBuf]
  /\ stale = {}
  /\ rloaded = [r \in Readers |-> 0]
  /\ lockSide = [w \in Writers |-> "Left"]
  /\ count = [w \in Writers |-> 0]
  /\ wdone = [w \in Writers |-> {}]
  /\ last = [r \in Readers |-> 0]
  /\ attempts = [w \in Writers |-> 0]
  /\ pstored = <<>>
  /\ ploaded = <<>>
  /\ rawN = -1
  /\ rawTotal = -1
  /\ rawKind = "none"
  /\ rawView = <<>>
  /\ rawLock = <<>>
  /\ has_writer = TRUE
  /\ mutex = 0
  /\ tpc = [c \in Callers |-> "idle"]
  /\ tres = [c \in Callers |-> "none"]
  /\ lockSeq = 0
  /\ tord = [c \in Callers |-> 0]

\* A ReadGuard exists and has not finished its release.
Attached(r) == rpc[r] \in {"hold", "drop", "rel", "brk"}

\* ---------------------------------------------------------------- Reader
\* Reader::try_lock, lines 153-160: load the toggle, refuse at the limit.
ReaderLoad(r) ==
  /\ rpc[r] = "idle"
  /\ LET original == from_usize(toggle) IN
       IF original.count = MAX - 1
       THEN UNCHANGED <<rpc, roriginal, rloaded>>
       ELSE /\ rpc' = [rpc EXCEPT ![r] = "acq"]
            /\ roriginal' = [roriginal EXCEPT ![r] = original]
            /\ rloaded' = [rloaded EXCEPT ![r] = toggle]
  /\ UNCHANGED <<toggle, drain, buf, reading_from, wpc, writer_opt, writing_to,
                 woriginal, prev_readers, committed, snap, stale, lockSide>>

\* A try_lock that also gives up while the writer gate is not idle.
ReaderCasGated(r) ==
  /\ rpc[r] = "acq"
  /\ LET original == roriginal[r]
         new == [original EXCEPT !.count = @ + 1]
         old == from_usize(toggle)
     IN  IF old # original \/ drain # 0
         THEN /\ rpc' = [rpc EXCEPT ![r] = "idle"]
              /\ UNCHANGED <<toggle, reading_from, snap>>
         ELSE /\ toggle' = to_usize(new)
              /\ rpc' = [rpc EXCEPT ![r] = "hold"]
              /\ reading_from' = [reading_from EXCEPT ![r] = new.side]
              /\ snap' = [snap EXCEPT ![r] = committed]
  /\ roriginal' = [roriginal EXCEPT ![r] = NoState]
  /\ rloaded' = [rloaded EXCEPT ![r] = 0]
  /\ UNCHANGED <<drain, buf, wpc, writer_opt, writing_to, woriginal,
                 prev_readers, committed, stale, lockSide>>

\* Reader::try_lock, lines 159-180: the compare-and-swap and the guard.
ReaderCas(r) ==
  /\ rpc[r] = "acq"
  /\ LET original == roriginal[r]
         new == [original EXCEPT !.count = @ + 1]
         old == from_usize(toggle)
     IN  /\ toggle' = cas_word(toggle, to_usize(original), to_usize(new))
         /\ IF old # original
            THEN /\ rpc' = [rpc EXCEPT ![r] = "idle"]
                 /\ UNCHANGED <<reading_from, snap>>
            ELSE /\ rpc' = [rpc EXCEPT ![r] = "hold"]
                 /\ reading_from' = [reading_from EXCEPT ![r] = new.side]
                 /\ snap' = [snap EXCEPT ![r] = committed]
  /\ roriginal' = [roriginal EXCEPT ![r] = NoState]
  /\ rloaded' = [rloaded EXCEPT ![r] = 0]
  /\ UNCHANGED <<drain, buf, wpc, writer_opt, writing_to, woriginal,
                 prev_readers, committed, stale, lockSide>>

\* The guard goes out of scope: ReadGuard::drop is entered.
ReaderEndRead(r) ==
  /\ rpc[r] = "hold"
  /\ rpc' = [rpc EXCEPT ![r] = "drop"]
  /\ UNCHANGED <<toggle, drain, buf, roriginal, reading_from, wpc, writer_opt,
                 writing_to, woriginal, prev_readers, committed, snap, stale,
                 rloaded, lockSide>>

\* A release loop that does not look at the side.
DropLoadNoSideCheck(r) ==
  /\ rpc[r] = "drop"
  /\ rpc' = [rpc EXCEPT ![r] = "rel"]
  /\ roriginal' = [roriginal EXCEPT ![r] = from_usize(toggle)]
  /\ UNCHANGED <<toggle, drain, buf, reading_from, wpc, writer_opt, writing_to,
                 woriginal, prev_readers, committed, snap, stale, rloaded,
                 lockSide>>

\* ReadGuard::drop, lines 205-209: load the toggle, leave the loop on a swap.
DropLoad(r) ==
  /\ rpc[r] = "drop"
  /\ LET original == from_usize(toggle) IN
       IF original.side # reading_from[r]
       THEN /\ rpc' = [rpc EXCEPT ![r] = "brk"]
            /\ UNCHANGED roriginal
       ELSE /\ rpc' = [rpc EXCEPT ![r] = "rel"]
            /\ roriginal' = [roriginal EXCEPT ![r] = original]
  /\ UNCHANGED <<toggle, drain, buf, reading_from, wpc, writer_opt, writing_to,
                 woriginal, prev_readers, committed, snap, stale, rloaded,
                 lockSide>>

\* A release whose successful compare-and-swap leaves the loop with `break`
\* instead of `return`, and so goes on to the drain decrement.
DropCasBreak(r) ==
  /\ rpc[r] = "rel"
  /\ LET original == roriginal[r]
         new == [original EXCEPT !.count = (@ + Modulus - 1) % Modulus]
         old == from_usize(toggle)
     IN  /\ toggle' = cas_word(toggle, to_usize(original), to_usize(new))
         /\ rpc' = [rpc EXCEPT ![r] = IF old = original THEN "brk" ELSE "drop"]
  /\ roriginal' = [roriginal EXCEPT ![r] = NoState]
  /\ UNCHANGED <<drain, buf, reading_from, wpc, writer_opt, writing_to,
                 woriginal, prev_readers, committed, snap, stale, rloaded,
                 lockSide>>

\* ReadGuard::drop, lines 211-222: count - 1 and the compare-and-swap.
DropCas(r) ==
  /\ rpc[r] = "rel"
  /\ \E c \in usize_sub(roriginal[r].count, 1) :
       IF c = -1
       THEN /\ rpc' = [rpc EXCEPT ![r] = "panic"]
            /\ UNCHANGED <<toggle, stale, reading_from, snap>>
       ELSE LET original == roriginal[r]
                new == [original EXCEPT !.count = c]
                old == from_usize(toggle)
            IN  /\ toggle' = cas_word(toggle, to_usize(original), to_usize(new))
                /\ IF old = original
                   THEN /\ rpc' = [rpc EXCEPT ![r] = "idle"]
                        /\ stale' = stale \ {r}
                        /\ reading_from' = [reading_from EXCEPT ![r] = "Left"]
                        /\ snap' = [snap EXCEPT ![r] = ZeroBuf]
                   ELSE /\ rpc' = [rpc EXCEPT ![r] = "drop"]
                        /\ UNCHANGED <<stale, reading_from, snap>>
  /\ roriginal' = [roriginal EXCEPT ![r] = NoState]
  /\ UNCHANGED <<drain, buf, wpc, writer_opt, writing_to,
                 woriginal, prev_readers, committed, rloaded, lockSide>>

\* A release that leaves the loop on a swap and returns without the
\* fetch_sub.
DropFetchSubSkip(r) ==
  /\ rpc[r] = "brk"
  /\ rpc' = [rpc EXCEPT ![r] = "idle"]
  /\ stale' = stale \ {r}
  /\ reading_from' = [reading_from EXCEPT ![r] = "Left"]
  /\ snap' = [snap EXCEPT ![r] = ZeroBuf]
  /\ UNCHANGED <<toggle, drain, buf, roriginal, wpc, writer_opt,
                 writing_to, woriginal, prev_readers, committed, rloaded,
                 lockSide>>

\* ReadGuard::drop, lines 225-228: fetch_sub(1) on remaining_readers (wraps).
DropFetchSub(r) ==
  /\ rpc[r] = "brk"
  /\ drain' = (drain + Modulus - 1) % Modulus
  /\ rpc' = [rpc EXCEPT ![r] = "idle"]
  /\ stale' = stale \ {r}
  /\ reading_from' = [reading_from EXCEPT ![r] = "Left"]
  /\ snap' = [snap EXCEPT ![r] = ZeroBuf]
  /\ UNCHANGED <<toggle, buf, roriginal, wpc, writer_opt,
                 writing_to, woriginal, prev_readers, committed, rloaded,
                 lockSide>>

\* ---------------------------------------------------------------- Writer
\* A try_lock that claims the gate whatever remaining_readers holds.
TryLockNoGate(w) ==
  /\ wpc[w] = "idle"
  /\ drain' = MAX
  /\ wpc' = [wpc EXCEPT ![w] = "locked"]
  /\ lockSide' = [lockSide EXCEPT ![w] = from_usize(toggle).side]
  /\ UNCHANGED <<toggle, buf, rpc, roriginal, reading_from, writer_opt,
                 writing_to, woriginal, prev_readers, committed, snap, stale,
                 rloaded>>

\* Writer::try_lock, lines 242-247 and 261-263: the compare-and-swap 0 -> MAX.
TryLock(w) ==
  /\ wpc[w] = "idle"
  /\ drain' = cas_word(drain, 0, MAX)
  /\ IF drain = 0
     THEN /\ wpc' = [wpc EXCEPT ![w] = "locked"]
          /\ lockSide' = [lockSide EXCEPT ![w] = from_usize(toggle).side]
     ELSE /\ wpc' = [wpc EXCEPT ![w] = "err"]
          /\ UNCHANGED lockSide
  /\ UNCHANGED <<toggle, buf, rpc, roriginal, reading_from, writer_opt,
                 writing_to, woriginal, prev_readers, committed, snap, stale,
                 rloaded>>

\* The caller of a failed Writer::try_lock takes the Err and goes on
\* (soak.rs lines 46-49: sleep, continue).
TryLockErr(w) ==
  /\ wpc[w] = "err"
  /\ wpc' = [wpc EXCEPT ![w] = "idle"]
  /\ UNCHANGED <<toggle, drain, buf, rpc, roriginal, reading_from, writer_opt,
                 writing_to, woriginal, prev_readers, committed, snap, stale,
                 rloaded, lockSide>>

\* A try_lock that hands out the active buffer.
LockLoadSameSide(w) ==
  /\ wpc[w] = "locked"
  /\ writing_to' = [writing_to EXCEPT ![w] = from_usize(toggle).side]
  /\ writer_opt' = [writer_opt EXCEPT ![w] = "Some"]
  /\ wpc' = [wpc EXCEPT ![w] = "guard"]
  /\ UNCHANGED <<toggle, drain, buf, rpc, roriginal, reading_from, woriginal,
                 prev_readers, committed, snap, stale, rloaded, lockSide>>

\* Writer::try_lock, lines 248-260: load the toggle, build the guard.
LockLoad(w) ==
  /\ wpc[w] = "locked"
  /\ writing_to' = [writing_to EXCEPT ![w] = Not(from_usize(toggle).side)]
  /\ writer_opt' = [writer_opt EXCEPT ![w] = "Some"]
  /\ wpc' = [wpc EXCEPT ![w] = "guard"]
  /\ UNCHANGED <<toggle, drain, buf, rpc, roriginal, reading_from, woriginal,
                 prev_readers, committed, snap, stale, rloaded, lockSide>>

\* WriteGuard::deref_mut: one store into cell i of the guard's buffer.
Write(w, i, v) ==
  /\ wpc[w] = "guard"
  /\ buf' = [buf EXCEPT ![writing_to[w]][i] = v]
  /\ UNCHANGED <<toggle, drain, rpc, roriginal, reading_from, wpc, writer_opt,
                 writing_to, woriginal, prev_readers, committed, snap, stale,
                 rloaded, lockSide>>

\* An activate that stores the new state and reads the toggle afterwards,
\* so that `original` is the state it has just written.
ActivateSwapLoadAfter(w) ==
  /\ wpc[w] = "guard"
  /\ writer_opt' = [writer_opt EXCEPT ![w] = "None"]
  /\ toggle' = to_usize([side |-> writing_to[w], count |-> 0])
  /\ woriginal' = [woriginal EXCEPT ![w] = [side |-> writing_to[w], count |-> 0]]
  /\ prev_readers' = [prev_readers EXCEPT ![w] = MAX]
  /\ attempts' = [attempts EXCEPT ![w] = 0]
  /\ committed' = buf[writing_to[w]]
  /\ stale' = {r \in Readers :
                 Attached(r) /\ reading_from[r] = from_usize(toggle).side}
  /\ wpc' = [wpc EXCEPT ![w] = "install"]
  /\ UNCHANGED <<drain, buf, rpc, roriginal, reading_from, writing_to, snap,
                 rloaded, lockSide>>

\* WriteGuard::activate, lines 293-305: take the writer, swap the toggle.
ActivateSwap(w) ==
  /\ wpc[w] = "guard"
  /\ IF writer_opt[w] = "None"
     THEN /\ wpc' = [wpc EXCEPT ![w] = "panic"]
          /\ UNCHANGED <<toggle, writer_opt, woriginal, prev_readers, committed,
                         stale, attempts>>
     ELSE /\ writer_opt' = [writer_opt EXCEPT ![w] = "None"]
          /\ toggle' = to_usize([side |-> writing_to[w], count |-> 0])
          /\ woriginal' = [woriginal EXCEPT ![w] = from_usize(toggle)]
          /\ prev_readers' = [prev_readers EXCEPT ![w] = MAX]
          /\ attempts' = [attempts EXCEPT ![w] = 0]
          /\ committed' = buf[writing_to[w]]
          /\ stale' = {r \in Readers :
                         Attached(r) /\ reading_from[r] = from_usize(toggle).side}
          /\ wpc' = [wpc EXCEPT ![w] = "install"]
  /\ UNCHANGED <<drain, buf, rpc, roriginal, reading_from, writing_to, snap,
                 rloaded, lockSide>>

\* An installation that stores the count without the retry arithmetic.
ActivateStore(w) ==
  /\ wpc[w] = "install"
  /\ drain' = woriginal[w].count
  /\ wpc' = [wpc EXCEPT ![w] = "end"]
  /\ woriginal' = [woriginal EXCEPT ![w] = NoState]
  /\ prev_readers' = [prev_readers EXCEPT ![w] = 0]
  /\ attempts' = [attempts EXCEPT ![w] = 0]
  /\ UNCHANGED <<toggle, buf, rpc, roriginal, reading_from, writer_opt,
                 writing_to, committed, snap, stale, rloaded, lockSide>>

\* An installation loop that retries without taking the value it observed.
ActivateCasNoReload(w) ==
  /\ wpc[w] = "install"
  /\ \E remaining \in usize_sub(woriginal[w].count, MAX - prev_readers[w]) :
       IF remaining = -1
       THEN /\ wpc' = [wpc EXCEPT ![w] = "panic"]
            /\ UNCHANGED <<drain, prev_readers, woriginal, attempts>>
       ELSE /\ drain' = cas_word(drain, prev_readers[w], remaining)
            /\ IF drain = prev_readers[w]
               THEN /\ wpc' = [wpc EXCEPT ![w] = "end"]
                    /\ woriginal' = [woriginal EXCEPT ![w] = NoState]
                    /\ prev_readers' = [prev_readers EXCEPT ![w] = 0]
                    /\ attempts' = [attempts EXCEPT ![w] = 0]
               ELSE /\ attempts' = [attempts EXCEPT ![w] = @ + 1]
                    /\ UNCHANGED <<wpc, woriginal, prev_readers>>
  /\ UNCHANGED <<toggle, buf, rpc, roriginal, reading_from, writer_opt,
                 writing_to, committed, snap, stale, rloaded, lockSide>>

\* WriteGuard::activate, lines 307-321: one turn of the installation loop.
ActivateCas(w) ==
  /\ wpc[w] = "install"
  /\ \E remaining \in usize_sub(woriginal[w].count, MAX - prev_readers[w]) :
       IF remaining = -1
       THEN /\ wpc' = [wpc EXCEPT ![w] = "panic"]
            /\ UNCHANGED <<drain, prev_readers, woriginal, attempts>>
       ELSE /\ drain' = cas_word(drain, prev_readers[w], remaining)
            /\ IF drain = prev_readers[w]
               THEN /\ wpc' = [wpc EXCEPT ![w] = "end"]
                    /\ woriginal' = [woriginal EXCEPT ![w] = NoState]
                    /\ prev_readers' = [prev_readers EXCEPT ![w] = 0]
                    /\ attempts' = [attempts EXCEPT ![w] = 0]
               ELSE /\ prev_readers' = [prev_readers EXCEPT ![w] = drain]
                    /\ attempts' = [attempts EXCEPT ![w] = @ + 1]
                    /\ UNCHANGED <<wpc, woriginal>>
  /\ UNCHANGED <<toggle, buf, rpc, roriginal, reading_from, writer_opt,
                 writing_to, committed, snap, stale, rloaded, lockSide>>

\* A drop that takes the writer and forgets to reopen the gate.
GuardDropNoStore(w) ==
  /\ wpc[w] \in {"guard", "end"}
  /\ writer_opt' = [writer_opt EXCEPT ![w] = "None"]
  /\ wpc' = [wpc EXCEPT ![w] = "idle"]
  /\ writing_to' = [writing_to EXCEPT ![w] = "Left"]
  /\ lockSide' = [lockSide EXCEPT ![w] = "Left"]
  /\ UNCHANGED <<toggle, drain, buf, rpc, roriginal, reading_from,
                 woriginal, prev_readers, committed, snap, stale, rloaded>>

\* A drop that stores 0 whether or not activate has taken the writer.
GuardDropAlwaysStore(w) ==
  /\ wpc[w] \in {"guard", "end"}
  /\ writer_opt' = [writer_opt EXCEPT ![w] = "None"]
  /\ drain' = 0
  /\ wpc' = [wpc EXCEPT ![w] = "idle"]
  /\ writing_to' = [writing_to EXCEPT ![w] = "Left"]
  /\ lockSide' = [lockSide EXCEPT ![w] = "Left"]
  /\ UNCHANGED <<toggle, buf, rpc, roriginal, reading_from,
                 woriginal, prev_readers, committed, snap, stale, rloaded>>

\* WriteGuard::drop, lines 326-333: runs when the guard is dropped without
\* activate ("guard") and when activate returns ("end").
GuardDrop(w) ==
  /\ wpc[w] \in {"guard", "end"}
  /\ IF writer_opt[w] = "Some"
     THEN /\ writer_opt' = [writer_opt EXCEPT ![w] = "None"]
          /\ drain' = 0
     ELSE UNCHANGED <<writer_opt, drain>>
  /\ wpc' = [wpc EXCEPT ![w] = "idle"]
  /\ writing_to' = [writing_to EXCEPT ![w] = "Left"]
  /\ lockSide' = [lockSide EXCEPT ![w] = "Left"]
  /\ UNCHANGED <<toggle, buf, rpc, roriginal, reading_from,
                 woriginal, prev_readers, committed, snap, stale, rloaded>>

\* ------------------------------------------------------------------ Spec
\* Any use of the API by NReaders reader threads and NWriters writer threads.
Next ==
  \/ \E r \in Readers : ReaderLoad(r) /\ UNCHANGED restVars
  \/ \E r \in Readers : ReaderCas(r) /\ UNCHANGED restVars
  \/ \E r \in Readers : ReaderEndRead(r) /\ UNCHANGED restVars
  \/ \E r \in Readers : DropLoad(r) /\ UNCHANGED restVars
  \/ \E r \in Readers : DropCas(r) /\ UNCHANGED restVars
  \/ \E r \in Readers : DropFetchSub(r) /\ UNCHANGED restVars
  \/ \E w \in Writers : TryLock(w) /\ UNCHANGED restVars
  \/ \E w \in Writers : TryLockErr(w) /\ UNCHANGED restVars
  \/ \E w \in Writers : LockLoad(w) /\ UNCHANGED restVars
  \/ \E w \in Writers, i \in Cells, v \in Bytes :
       Write(w, i, v) /\ UNCHANGED restVars
  \/ \E w \in Writers : ActivateSwap(w) /\ UNCHANGED auxVars
  \/ \E w \in Writers : ActivateCas(w) /\ UNCHANGED auxVars
  \/ \E w \in Writers : GuardDrop(w) /\ UNCHANGED restVars

Spec == Init /\ [][Next]_vars

\* -------------------------------------------------------------- SpecLeak
\* std::mem::forget on a ReadGuard: the borrow of the Reader ends and
\* ReadGuard::drop never runs, so the count it added stays in the toggle.
ReaderForget(r) ==
  /\ rpc[r] = "hold"
  /\ rpc' = [rpc EXCEPT ![r] = "idle"]
  /\ reading_from' = [reading_from EXCEPT ![r] = "Left"]
  /\ snap' = [snap EXCEPT ![r] = ZeroBuf]
  /\ UNCHANGED <<toggle, drain, buf, roriginal, wpc, writer_opt, writing_to,
                 woriginal, prev_readers, committed, stale, rloaded, lockSide>>

\* Readers that acquire and leak their guards: every value of the count
\* field is reached from the initial header.
NextLeak ==
  \/ \E r \in Readers : ReaderLoad(r) /\ UNCHANGED restVars
  \/ \E r \in Readers : ReaderCas(r) /\ UNCHANGED restVars
  \/ \E r \in Readers : ReaderForget(r) /\ UNCHANGED restVars

SpecLeak == Init /\ [][NextLeak]_vars

\* -------------------------------------------------------------- SpecSoak
\* tests/soak.rs: one writer thread running write() and NReaders reader
\* threads running read() over one OwnedDoublet of size_of::<usize>() bytes.

\* soak.rs as_bytes: the cells of a usize, least significant first.
as_bytes(x) == [i \in Cells |-> (x \div (ByteBase ^ (i - 1))) % ByteBase]

RECURSIVE from_cells(_, _)
from_cells(b, i) ==
  IF i > BufSize THEN 0 ELSE b[i] * (ByteBase ^ (i - 1)) + from_cells(b, i + 1)

\* soak.rs from_bytes: the usize whose cells the buffer holds.
from_bytes(b) == from_cells(b, 1)

\* OwnedDoublet::take_writer hands out one Writer: the soak's writer thread.
SoakWriter == 1

\* write(), lines 43-50: before the deadline, one Writer::try_lock.
SoakTryLock(w) ==
  /\ count[w] < MaxCount
  /\ TryLock(w)
  /\ UNCHANGED restVars

\* write(), lines 44-52: the guard is returned and count += 1.
SoakLocked(w) ==
  /\ LockLoad(w)
  /\ count' = [count EXCEPT ![w] = @ + 1]
  /\ wdone' = [wdone EXCEPT ![w] = {}]
  /\ UNCHANGED <<last, attempts, sideVars>>

\* write(), line 54: copy_from_slice(as_bytes(&count)) stores one cell, in
\* an order the copy is free to choose.
SoakCopy(w, i) ==
  /\ i \notin wdone[w]
  /\ Write(w, i, as_bytes(count[w])[i])
  /\ wdone' = [wdone EXCEPT ![w] = @ \cup {i}]
  /\ UNCHANGED <<count, last, attempts, sideVars>>

\* write(), line 55: guard.activate() once the copy is complete.
SoakActivate(w) ==
  /\ wdone[w] = Cells
  /\ ActivateSwap(w)
  /\ UNCHANGED auxVars

\* write(), line 55: activate returns and the guard is dropped.
SoakActivated(w) ==
  /\ wpc[w] = "end"
  /\ GuardDrop(w)
  /\ UNCHANGED restVars

\* read(), lines 76-81: from_bytes(&*guard), the assertion, last = value;
\* then the guard goes out of scope.
SoakRead(r) ==
  /\ rpc[r] = "hold"
  /\ LET value == from_bytes(buf[reading_from[r]]) IN
       IF value >= last[r]
       THEN /\ last' = [last EXCEPT ![r] = value]
            /\ rpc' = [rpc EXCEPT ![r] = "drop"]
       ELSE /\ rpc' = [rpc EXCEPT ![r] = "panic"]
            /\ UNCHANGED last
  /\ UNCHANGED <<toggle, drain, buf, roriginal, reading_from, wpc, writer_opt,
                 writing_to, woriginal, prev_readers, committed, snap, stale,
                 rloaded, lockSide, count, wdone, attempts, sideVars>>

NextSoak ==
  \/ \E r \in Readers :
       \/ ReaderLoad(r) /\ UNCHANGED restVars
       \/ ReaderCas(r) /\ UNCHANGED restVars
       \/ SoakRead(r)
       \/ DropLoad(r) /\ UNCHANGED restVars
       \/ DropCas(r) /\ UNCHANGED restVars
       \/ DropFetchSub(r) /\ UNCHANGED restVars
  \/ SoakTryLock(SoakWriter)
  \/ TryLockErr(SoakWriter) /\ UNCHANGED restVars
  \/ SoakLocked(SoakWriter)
  \/ \E i \in Cells : SoakCopy(SoakWriter, i)
  \/ SoakActivate(SoakWriter)
  \/ ActivateCas(SoakWriter) /\ UNCHANGED auxVars
  \/ SoakActivated(SoakWriter)

SpecSoak == Init /\ [][NextSoak]_vars

\* -------------------------------------------------------------- SpecPack
\* toggle.rs on its own: a ToggleCount that callers store States into and
\* load States from.
States == [side : Sides, count : 0 .. MASK]

\* ToggleCount::store, lines 63-66: state.to_usize() goes into the atomic.
ToggleStore(s) ==
  /\ toggle' = to_usize(s)
  /\ pstored' = <<s, to_usize(s)>>
  /\ UNCHANGED <<drain, buf, rpc, roriginal, reading_from, wpc, writer_opt,
                 writing_to, woriginal, prev_readers, committed, snap, stale,
                 rloaded, lockSide, ploaded>>

\* ToggleCount::load, lines 59-61: State::from_usize of the atomic's word.
ToggleLoad ==
  /\ ploaded' = <<toggle, from_usize(toggle)>>
  /\ UNCHANGED <<toggle, drain, buf, rpc, roriginal, reading_from, wpc,
                 writer_opt, writing_to, woriginal, prev_readers, committed,
                 snap, stale, rloaded, lockSide, pstored>>

\* ToggleCount::compare_and_swap, lines 68-73: both States are encoded, the
\* words go to the atomic's compare_and_swap, and the old word is decoded.
ToggleCompareAndSwap(current, new) ==
  /\ toggle' = cas_word(toggle, to_usize(current), to_usize(new))
  /\ pstored' = <<current, to_usize(current), new, to_usize(new)>>
  /\ ploaded' = <<toggle, from_usize(toggle)>>
  /\ UNCHANGED <<drain, buf, rpc, roriginal, reading_from, wpc, writer_opt,
                 writing_to, woriginal, prev_readers, committed, snap, stale,
                 rloaded, lockSide>>

NextPack ==
  \/ \E s \in States :
       ToggleStore(s) /\ UNCHANGED <<attempts, soakVars, rawVars, ownedVars>>
  \/ \E current, new \in States :
       ToggleCompareAndSwap(current, new)
         /\ UNCHANGED <<attempts, soakVars, rawVars, ownedVars>>
  \/ ToggleLoad /\ UNCHANGED <<attempts, soakVars, rawVars, ownedVars>>

SpecPack == Init /\ [][NextPack]_vars

\* --------------------------------------------------------------- SpecRaw
\* tests/raw.rs and the raw constructors: a caller sizes a zeroed region,
\* builds one Reader or one Writer over it and calls try_lock once.
SizeModulus == 2 ^ SizeBits
\* Doublet::header_size: size_of::<Header>(), two words of eight bytes.
HeaderSize == 16
Sizes == 0 .. (SizeModulus - 1)

\* A raw_size that counts one buffer instead of two.
raw_size_one_buffer(buffer_size) ==
  LET exact == HeaderSize + buffer_size
  IN  IF exact < SizeModulus THEN {exact} ELSE {-2, exact % SizeModulus}

\* raw_size, lines 71-73.  When the sum does not fit in usize a build with
\* overflow checks panics (-2) and a build without them wraps.
raw_size(buffer_size) ==
  LET exact == HeaderSize + (buffer_size * 2)
  IN  IF exact < SizeModulus THEN {exact} ELSE {-2, exact % SizeModulus}

\* Err(()) of from_raw_parts.
NoView == [ok |-> FALSE, size |-> 0, left |-> 0, right |-> 0]

\* A from_raw_parts that accepts a region holding the header alone.
from_raw_parts_lt(size) ==
  LET hdrsz == HeaderSize IN
  IF size < hdrsz
  THEN NoView
  ELSE LET rest == size - hdrsz IN
       IF 0 # rest % 2
       THEN NoView
       ELSE LET buffer_size == rest \div 2 IN
            [ok |-> TRUE, size |-> buffer_size, left |-> hdrsz,
             right |-> hdrsz + buffer_size]

\* Doublet::from_raw_parts, lines 111-139; left and right are the offsets of
\* left_buffer and right_buffer from buf.
from_raw_parts(size) ==
  LET hdrsz == HeaderSize IN
  IF size <= hdrsz
  THEN NoView
  ELSE LET rest == size - hdrsz IN
       IF 0 # rest % 2
       THEN NoView
       ELSE LET buffer_size == rest \div 2 IN
            [ok |-> TRUE, size |-> buffer_size, left |-> hdrsz,
             right |-> hdrsz + buffer_size]

\* raw.rs lines 7-9 and 21-23: raw_size(n), then vec![0; raw_size].
RawSize(n) ==
  /\ rawN = -1
  /\ rawTotal = -1
  /\ rawN' = n
  /\ rawTotal' \in raw_size(n)
  /\ UNCHANGED <<rawKind, rawView, rawLock>>

\* A caller of from_raw_parts with zeroed storage of a size of its own.
RawRegion(total) ==
  /\ rawN = -1
  /\ rawTotal = -1
  /\ rawTotal' = total
  /\ UNCHANGED <<rawN, rawKind, rawView, rawLock>>

\* Reader::from_raw_parts, lines 147-150 (raw.rs line 26).
ReaderFromRaw ==
  /\ rawTotal >= 0
  /\ rawKind = "none"
  /\ rawKind' = "Reader"
  /\ rawView' = <<from_raw_parts(rawTotal)>>
  /\ UNCHANGED <<rawN, rawTotal, rawLock>>

\* Writer::from_raw_parts, lines 236-239 (raw.rs line 12).
WriterFromRaw ==
  /\ rawTotal >= 0
  /\ rawKind = "none"
  /\ rawKind' = "Writer"
  /\ rawView' = <<from_raw_parts(rawTotal)>>
  /\ UNCHANGED <<rawN, rawTotal, rawLock>>

\* raw.rs line 28: reader.try_lock(), up to its load.
RawReaderLoad ==
  /\ rawKind = "Reader"
  /\ rawView[1].ok
  /\ rawLock = <<>>
  /\ ReaderLoad(1)
  /\ UNCHANGED rawVars

\* raw.rs lines 28-30: try_lock's compare-and-swap; guard.len() is the
\* view's size (lib.rs line 172), -1 stands for Err.
RawReaderCas ==
  /\ rawKind = "Reader"
  /\ ReaderCas(1)
  /\ rawLock' = <<IF rpc'[1] = "hold" THEN rawView[1].size ELSE -1>>
  /\ UNCHANGED <<rawN, rawTotal, rawKind, rawView>>

\* raw.rs line 14: writer.try_lock(), its compare-and-swap on the gate.
RawTryLock ==
  /\ rawKind = "Writer"
  /\ rawView[1].ok
  /\ rawLock = <<>>
  /\ TryLock(1)
  /\ UNCHANGED rawVars

\* raw.rs lines 14-16: the guard is built; guard.len() is the view's size
\* (lib.rs line 252).
RawLockLoad ==
  /\ rawKind = "Writer"
  /\ LockLoad(1)
  /\ rawLock' = <<rawView[1].size>>
  /\ UNCHANGED <<rawN, rawTotal, rawKind, rawView>>

NextRaw ==
  \/ \E n \in Sizes : RawSize(n) /\ UNCHANGED <<toggle, drain, buf, rpc,
       roriginal, reading_from, wpc, writer_opt, writing_to, woriginal,
       prev_readers, committed, snap, stale, rloaded, lockSide, attempts,
       soakVars, packVars, ownedVars>>
  \/ \E total \in Sizes : RawRegion(total) /\ UNCHANGED <<toggle, drain, buf,
       rpc, roriginal, reading_from, wpc, writer_opt, writing_to, woriginal,
       prev_readers, committed, snap, stale, rloaded, lockSide, attempts,
       soakVars, packVars, ownedVars>>
  \/ ReaderFromRaw /\ UNCHANGED <<toggle, drain, buf, rpc, roriginal,
       reading_from, wpc, writer_opt, writing_to, woriginal, prev_readers,
       committed, snap, stale, rloaded, lockSide, attempts, soakVars,
       packVars, ownedVars>>
  \/ WriterFromRaw /\ UNCHANGED <<toggle, drain, buf, rpc, roriginal,
       reading_from, wpc, writer_opt, writing_to, woriginal, prev_readers,
       committed, snap, stale, rloaded, lockSide, attempts, soakVars,
       packVars, ownedVars>>
  \/ RawReaderLoad /\ UNCHANGED <<attempts, soakVars, packVars, ownedVars>>
  \/ RawReaderCas /\ UNCHANGED <<attempts, soakVars, packVars, ownedVars>>
  \/ RawTryLock /\ UNCHANGED <<attempts, soakVars, packVars, ownedVars>>
  \/ RawLockLoad /\ UNCHANGED <<attempts, soakVars, packVars, ownedVars>>

SpecRaw == Init /\ [][NextRaw]_vars

\* ------------------------------------------------------------- SpecOwned
\* OwnedDoublet shared by threads that call take_writer and reader and drop
\* what they were given.
\* The header, the buffers and the locals of Reader and Writer calls.
coreVars == <<toggle, drain, buf, rpc, roriginal, reading_from, wpc,
              writer_opt, writing_to, woriginal, prev_readers, committed,
              snap, stale, rloaded, lockSide, attempts>>

\* take_writer, line 49: self.has_writer.lock() returns once the Mutex is
\* free.
TakeWriterLock(c) ==
  /\ tpc[c] = "idle"
  /\ mutex = 0
  /\ lockSeq < MaxCalls
  /\ mutex' = c
  /\ tpc' = [tpc EXCEPT ![c] = "locked"]
  /\ lockSeq' = lockSeq + 1
  /\ tord' = [tord EXCEPT ![c] = lockSeq + 1]
  /\ UNCHANGED <<has_writer, tres>>

\* A take_writer that leaves the flag set.
TakeWriterCheckNoClear(c) ==
  /\ tpc[c] = "locked"
  /\ IF ~has_writer
     THEN /\ mutex' = 0
          /\ tres' = [tres EXCEPT ![c] = "None"]
          /\ tpc' = [tpc EXCEPT ![c] = "done"]
     ELSE /\ tpc' = [tpc EXCEPT ![c] = "unlock"]
          /\ UNCHANGED <<mutex, tres>>
  /\ UNCHANGED <<has_writer, lockSeq, tord>>

\* take_writer, lines 51-55: return None (the MutexGuard is dropped on the
\* way out) or clear the flag.
TakeWriterCheck(c) ==
  /\ tpc[c] = "locked"
  /\ IF ~has_writer
     THEN /\ mutex' = 0
          /\ tres' = [tres EXCEPT ![c] = "None"]
          /\ tpc' = [tpc EXCEPT ![c] = "done"]
          /\ UNCHANGED has_writer
     ELSE /\ has_writer' = FALSE
          /\ tpc' = [tpc EXCEPT ![c] = "unlock"]
          /\ UNCHANGED <<mutex, tres>>
  /\ UNCHANGED <<lockSeq, tord>>

\* take_writer, lines 56-62: the block ends, the MutexGuard is dropped, the
\* Writer is built and returned.
TakeWriterUnlock(c) ==
  /\ tpc[c] = "unlock"
  /\ mutex' = 0
  /\ tres' = [tres EXCEPT ![c] = "Some"]
  /\ tpc' = [tpc EXCEPT ![c] = "done"]
  /\ UNCHANGED <<has_writer, lockSeq, tord>>

\* OwnedDoublet::reader, lines 65-68.
OwnedReader(c) ==
  /\ tpc[c] = "idle"
  /\ tres' = [tres EXCEPT ![c] = "Reader"]
  /\ tpc' = [tpc EXCEPT ![c] = "done"]
  /\ UNCHANGED <<has_writer, mutex, lockSeq, tord>>

\* The caller drops the Option<Writer> or the Reader it holds; neither type
\* implements Drop.
CallerDrop(c) ==
  /\ tpc[c] = "done"
  /\ tpc' = [tpc EXCEPT ![c] = "idle"]
  /\ tres' = [tres EXCEPT ![c] = "none"]
  /\ tord' = [tord EXCEPT ![c] = 0]
  /\ UNCHANGED <<has_writer, mutex, lockSeq>>

NextOwned ==
  \/ \E c \in Callers :
       TakeWriterLock(c) /\ UNCHANGED <<coreVars, soakVars, packVars, rawVars>>
  \/ \E c \in Callers :
       TakeWriterCheck(c) /\ UNCHANGED <<coreVars, soakVars, packVars, rawVars>>
  \/ \E c \in Callers :
       TakeWriterUnlock(c) /\ UNCHANGED <<coreVars, soakVars, packVars, rawVars>>
  \/ \E c \in Callers :
       OwnedReader(c) /\ UNCHANGED <<coreVars, soakVars, packVars, rawVars>>
  \/ \E c \in Callers :
       CallerDrop(c) /\ UNCHANGED <<coreVars, soakVars, packVars, rawVars>>

SpecOwned == Init /\ [][NextOwned]_vars

\* -------------------------------------------------------------- SpecFair
\* A thread that holds a ReadGuard or is inside ReadGuard::drop is scheduled
\* again: it ends its read and takes the next step of the release.
RelStep(r) ==
  /\ \/ ReaderEndRead(r)
     \/ DropLoad(r)
     \/ DropCas(r)
     \/ DropFetchSub(r)
  /\ UNCHANGED restVars

\* A thread inside activate's installation loop is scheduled again.
InstallStep(w) == ActivateCas(w) /\ UNCHANGED auxVars

\* Weak fairness on the reader steps only.
SpecFairReaders ==
  /\ Init
  /\ [][Next]_vars
  /\ \A r \in Readers : WF_vars(RelStep(r))

\* Weak fairness on the reader steps and on the installation loop.
SpecFair ==
  /\ Init
  /\ [][Next]_vars
  /\ \A r \in Readers : WF_vars(RelStep(r))
  /\ \A w \in Writers : WF_vars(InstallStep(w))

\* ---------------------------------------------------------------- claims
\* A WriteGuard is live from its successful compare-and-swap of drain until
\* its terminal action has made its last access to the header: the store of
\* the abort, or the successful compare-and-swap of activate's installation.
Live(w) == wpc[w] \in {"locked", "guard", "install"}

\* C1: writer mutual exclusion. In every reachable state at most one
\* WriteGuard is live, with several Writer views calling try_lock.
C1_MutualExclusion == Cardinality({w \in Writers : Live(w)}) <= 1

\* A guard is installing its drain count, a stale reader has already
\* decremented it, and another writer has just been refused.
C1_Witness ==
  \E w, x \in Writers :
    wpc[w] = "install" /\ drain = MAX - 1 /\ wpc[x] = "err"

\* C2: drain correctness. No attached ReadGuard reads the side a live
\* WriteGuard writes to, and while a writer holds the gate before its swap no
\* reader of the last deactivated side is still to release.
C2_DrainCorrect ==
  \A w \in Writers :
    /\ wpc[w] = "guard" =>
         \A r \in Readers : Attached(r) => reading_from[r] # writing_to[w]
    /\ wpc[w] \in {"locked", "guard"} => stale = {}

\* A second-generation guard: Left was deactivated by an activate and is
\* handed out again while a reader is attached to Right.
C2_Witness ==
  \E w \in Writers, r \in Readers :
    /\ wpc[w] = "guard" /\ writing_to[w] = "Left"
    /\ Attached(r) /\ reading_from[r] = "Right"

\* C3: reader non-interference. From its acquire to its release a guard's
\* slice holds the bytes published by the last swap before its acquiring CAS.
C3_ReaderSeesCommitted ==
  \A r \in Readers : Attached(r) => buf[reading_from[r]] = snap[r]

\* A reader holds a published non-zero value while a writer has stored a
\* part of a different value into the other buffer.
C3_Witness ==
  \E w \in Writers, r \in Readers :
    /\ rpc[r] = "hold" /\ snap[r] # ZeroBuf
    /\ wpc[w] = "guard"
    /\ buf[writing_to[w]] # snap[r] /\ buf[writing_to[w]] # ZeroBuf

\* C4: monotonic visibility in the soak. The value a reader's guard shows is
\* never below the value that reader saw last, and no read() assertion fails.
C4_Monotonic ==
  \A r \in Readers :
    /\ rpc[r] # "panic"
    /\ rpc[r] = "hold" => from_bytes(buf[reading_from[r]]) >= last[r]

\* A reader that saw a published value now holds a guard on a later one
\* while the writer is part-way through copying the next.
C4_Witness ==
  \E r \in Readers :
    /\ rpc[r] = "hold" /\ last[r] >= 1
    /\ from_bytes(buf[reading_from[r]]) > last[r]
    /\ wpc[SoakWriter] = "guard" /\ wdone[SoakWriter] # {}
    /\ wdone[SoakWriter] # Cells

\* C5: a reader acquire never overflows the count into the side bit: its
\* compare-and-swap step leaves the word unchanged or changes it to exactly
\* the same side with count + 1.
C5_AcquireKeepsSide ==
  [][\A r \in Readers :
       (rpc[r] = "acq" /\ rpc'[r] # "acq") =>
         \/ toggle' = toggle
         \/ from_usize(toggle') =
              [side |-> from_usize(toggle).side,
               count |-> from_usize(toggle).count + 1]]_vars

\* The count field is full and a reader is about to complete its acquire.
C5_Witness ==
  \E r \in Readers :
    rpc[r] = "acq" /\ toggle = rloaded[r] /\ from_usize(toggle).count = MASK

\* C6: while no WriteGuard is live the drain counter is the number of guards
\* that were attached to the deactivated side at the swap and have not
\* released.
C6_DrainIsStaleCount ==
  (\A w \in Writers : ~Live(w)) => drain = Cardinality(stale)

\* An activate has returned and a reader of the deactivated side is about to
\* decrement the drain counter.
C6_Witness ==
  /\ \A w \in Writers : wpc[w] = "idle"
  /\ drain >= 1
  /\ \E r \in stale : rpc[r] = "brk"

\* C7: abort frame. Dropping a guard that was not activated leaves the
\* toggle word alone and sets drain to 0, with the active side the one at
\* the acquisition; try_lock and the writer's buffer stores do not write
\* the toggle word either.
C7_AbortFrame ==
  [][\A w \in Writers :
       /\ (wpc[w] = "guard" /\ wpc'[w] = "idle") =>
            /\ toggle' = toggle
            /\ drain' = 0
            /\ from_usize(toggle').side = lockSide[w]
       /\ (wpc[w] \in {"idle", "locked"} /\ wpc'[w] # wpc[w]) =>
            toggle' = toggle
       /\ buf' # buf => toggle' = toggle]_vars

\* A guard that has stored into its buffer, with a reader attached since the
\* acquisition, can be dropped.
C7_Witness ==
  \E w \in Writers, r \in Readers :
    /\ wpc[w] = "guard" /\ writer_opt[w] = "Some"
    /\ buf[writing_to[w]] # committed
    /\ rpc[r] = "hold" /\ reading_from[r] = lockSide[w]

\* C8: Writer::try_lock succeeds only from drain = 0; with drain non-zero it
\* returns the error and changes nothing of the header, the buffers or the
\* guards.
C8_TryLockFails ==
  [][\A w \in Writers :
       (wpc[w] = "idle" /\ wpc'[w] # "idle") =>
         IF drain = 0
         THEN wpc'[w] = "locked" /\ drain' = MAX
         ELSE /\ wpc'[w] = "err"
              /\ UNCHANGED <<drain, toggle, buf, writer_opt, writing_to>>]_vars

\* A try_lock has failed while stale readers were draining.
C8_Witness ==
  \E w \in Writers : wpc[w] = "err" /\ drain # 0 /\ drain # MAX /\ stale # {}

\* C9: Reader::try_lock's compare-and-swap fails exactly when the toggle word
\* is not the word it loaded, whatever drain holds; a failure changes neither
\* the toggle nor drain and attaches no guard.
C9_ReaderContended ==
  [][\A r \in Readers :
       (rpc[r] = "acq" /\ rpc'[r] # "acq") =>
         IF toggle = rloaded[r]
         THEN rpc'[r] = "hold"
         ELSE rpc'[r] = "idle" /\ toggle' = toggle /\ drain' = drain]_vars

\* A reader's compare-and-swap is about to succeed while a WriteGuard is
\* live and drain holds the sentinel.
C9_Witness ==
  \E r \in Readers, w \in Writers :
    /\ rpc[r] = "acq" /\ toggle = rloaded[r] /\ drain = MAX
    /\ wpc[w] = "guard"

\* C10: no panic. Every subtraction is reached with operands that do not
\* underflow, the drain decrement with drain >= 1, activate with the guard's
\* writer present, and no thread has panicked.
C10_NoPanic ==
  /\ \A r \in Readers :
       /\ rpc[r] # "panic"
       /\ rpc[r] = "rel" => roriginal[r].count >= 1
       /\ rpc[r] = "brk" => drain >= 1
  /\ \A w \in Writers :
       /\ wpc[w] # "panic"
       /\ wpc[w] = "install" =>
            woriginal[w].count >= MAX - prev_readers[w]
       /\ wpc[w] = "guard" => writer_opt[w] = "Some"

\* The installation loop is retrying after a stale reader's decrement while
\* another stale reader is about to decrement.
C10_Witness ==
  \E w \in Writers, r \in Readers :
    /\ wpc[w] = "install" /\ prev_readers[w] = MAX - 1
    /\ rpc[r] = "brk"

\* The side the toggle word names as active.
ActiveSide == from_usize(toggle).side

\* C14: count invariant. The count field is the number of ReadGuards that
\* acquired on the active side and have not completed their release (so it is
\* 0 right after a swap, when every attached guard is on the other side).
C14_CountIsAttached ==
  from_usize(toggle).count =
    Cardinality({r \in Readers : Attached(r) /\ reading_from[r] = ActiveSide})

\* A swap has just happened with a reader still attached to the old side,
\* and another reader has since attached to the new side.
C14_Witness ==
  \E r, q \in Readers :
    /\ r \in stale /\ Attached(r)
    /\ Attached(q) /\ reading_from[q] = ActiveSide
    /\ from_usize(toggle).count = 1

\* A release step that decrements the count, side kept, drain untouched.
CountDecrement ==
  /\ from_usize(toggle).count >= 1
  /\ toggle' = to_usize([side |-> ActiveSide,
                          count |-> from_usize(toggle).count - 1])
  /\ drain' = drain

\* A release step that decrements drain, toggle word untouched.
DrainDecrement ==
  /\ drain >= 1
  /\ drain' = drain - 1
  /\ toggle' = toggle

\* C15: a release performs exactly one decrement: of the count when its side
\* is still active at its successful compare-and-swap, else of drain; its
\* other steps write neither word; with a WriteGuard live and not yet
\* activated it decrements the count and drain stays MAX.
C15_OneDecrement ==
  [][\A r \in Readers :
       /\ (Attached(r) /\ rpc'[r] = "idle") =>
            /\ IF reading_from[r] = ActiveSide
               THEN CountDecrement /\ ~DrainDecrement
               ELSE DrainDecrement /\ ~CountDecrement
            /\ (\E w \in Writers : wpc[w] \in {"locked", "guard"}) =>
                 CountDecrement /\ drain' = MAX
       /\ (Attached(r) /\ Attached(r)' /\ rpc'[r] # rpc[r]) =>
            toggle' = toggle /\ drain' = drain]_vars

\* A reader is about to complete its release by the count while a writer
\* holds a guard it has not activated.
C15_Witness ==
  \E r \in Readers, w \in Writers :
    /\ rpc[r] = "rel" /\ roriginal[r] = from_usize(toggle)
    /\ wpc[w] = "guard" /\ drain = MAX

\* C16: a WriteGuard is inert after activate: the drop that runs when
\* activate returns writes neither drain nor the toggle word.
C16_InertAfterActivate ==
  [][\A w \in Writers :
       (wpc[w] = "end" /\ wpc'[w] = "idle") =>
         drain' = drain /\ toggle' = toggle]_vars

\* activate has installed a drain count n > 0 and its guard is about to be
\* dropped.
C16_Witness ==
  \E w \in Writers :
    wpc[w] = "end" /\ writer_opt[w] = "None" /\ drain >= 1 /\ stale # {}

\* C17 as stated: drain is 0 with the gate idle, MAX with a WriteGuard live,
\* or the number of stale readers still attached.
C17_GateStates ==
  \/ drain = 0 /\ (\A w \in Writers : ~Live(w)) /\ stale = {}
  \/ drain = MAX /\ (\E w \in Writers : Live(w))
  \/ drain = Cardinality(stale) /\ (\A w \in Writers : ~Live(w))

\* The states of the gate, with the window between activate's swap and its
\* installation, where drain is MAX less the stale readers already released.
GateState ==
  \/ (\A w \in Writers : ~Live(w)) /\ drain = Cardinality(stale)
  \/ \E w \in Writers : wpc[w] \in {"locked", "guard"} /\ drain = MAX
  \/ \E w \in Writers :
       /\ wpc[w] = "install"
       /\ woriginal[w].count >= Cardinality(stale)
       /\ drain = MAX - (woriginal[w].count - Cardinality(stale))

\* The moves of the gate.
GateMove ==
  \/ drain = 0 /\ drain' = MAX /\
       \E w \in Writers : wpc[w] = "idle" /\ wpc'[w] = "locked"
  \/ drain = MAX /\ drain' = 0 /\
       \E w \in Writers : wpc[w] = "guard" /\ wpc'[w] = "idle"
  \/ \E w \in Writers :
       wpc[w] = "install" /\ wpc'[w] = "end" /\ drain' = Cardinality(stale)
  \/ drain' = drain - 1 /\ Cardinality(stale') = Cardinality(stale) - 1

\* C17 amended: drain is always in one of the gate states, the installation
\* window included, and changes only by a gate move.
C17_GateMachine == []GateState /\ [][drain' # drain => GateMove]_vars

\* The installation window: a stale reader has decremented drain from MAX
\* before activate installed the count.
C17_Witness ==
  \E w \in Writers :
    wpc[w] = "install" /\ drain = MAX - 1 /\ woriginal[w].count = 2

\* C20: packing round trip.  For every side and every count that fits in
\* the count field, decoding the encoded word gives back the same State; the
\* top bit of the encoded word is set exactly when the side is Right; and
\* the count decoded from any word is the word with its top bit cleared.
C20_PackRoundTrip ==
  /\ \A i \in 1 .. (Len(pstored) \div 2) :
       LET s == pstored[2 * i - 1]
           v == pstored[2 * i]
       IN  /\ from_usize(v) = s
           /\ v \in 0 .. MAX
           /\ (v >= TopBit) <=> (s.side = "Right")
  /\ ploaded # <<>> =>
       /\ ploaded[2].count = ploaded[1] % TopBit
       /\ (ploaded[2].side = "Right") <=> (ploaded[1] >= TopBit)

\* A Right state with the largest count was stored and loaded again.
C20_Witness ==
  /\ pstored = <<[side |-> "Right", count |-> MASK], MAX>>
  /\ ploaded = <<MAX, [side |-> "Right", count |-> MASK]>>

\* C12: from_raw_parts fails exactly when total_size <= header_size() or
\* total_size - header_size() is odd; otherwise the buffer size is
\* (total_size - header_size()) / 2, buffer A starts at offset header_size()
\* and buffer B at offset header_size() + buffer size.
C12_RawLayout ==
  rawView # <<>> =>
    LET view == rawView[1]
        bad == \/ rawTotal <= HeaderSize
               \/ (rawTotal - HeaderSize) % 2 = 1
    IN  /\ (~view.ok) <=> bad
        /\ view.ok =>
             /\ view.size = (rawTotal - HeaderSize) \div 2
             /\ view.left = HeaderSize
             /\ view.right = HeaderSize + view.size

\* A view with two three-byte buffers was built.
C12_Witness ==
  /\ rawView # <<>>
  /\ rawView[1].ok
  /\ rawView[1].size = 3
  /\ rawView[1].right = HeaderSize + 3

\* C13 as stated: for every n >= 1 the views over a zeroed region of
\* raw_size(n) bytes are built, the first try_lock succeeds and the guard
\* has length n.
C13_EveryN ==
  (rawN >= 1 /\ rawTotal >= 0) =>
    /\ rawView # <<>> => (rawView[1].ok /\ rawView[1].size = rawN)
    /\ rawLock # <<>> => rawLock[1] = rawN
    /\ wpc[1] # "err"

\* HeaderSize + 2n is a usize.
Fits(n) == HeaderSize + (2 * n) < SizeModulus

\* C13: for every n >= 1 whose raw_size does not overflow usize, raw_size(n)
\* is HeaderSize + 2n, the Reader or Writer over a zeroed region of that
\* size is built, its first try_lock succeeds and the guard has length n.
C13_RawRoundTrip ==
  (rawN >= 1 /\ Fits(rawN)) =>
    /\ rawTotal = HeaderSize + (2 * rawN)
    /\ rawView # <<>> => (rawView[1].ok /\ rawView[1].size = rawN)
    /\ rawLock # <<>> => rawLock[1] = rawN
    /\ wpc[1] # "err"

\* A Reader over raw_size(2) bytes holds a guard of length 2.
C13_Witness ==
  /\ rawN = 2
  /\ rawKind = "Reader"
  /\ rpc[1] = "hold"
  /\ rawLock = <<2>>

\* C11: take_writer returns a Writer exactly once per allocation.  A
\* finished call holds Some exactly when it was the first to take the
\* Mutex; every later call holds None, whether or not the Writer has been
\* dropped and whatever reader() calls were made; and the flag is set
\* exactly until the first call clears it.
C11_WriterOnce ==
  /\ \A c \in Callers :
       (tpc[c] = "done" /\ tres[c] \in {"Some", "None"}) =>
         ((tres[c] = "Some") <=> (tord[c] = 1))
  /\ Cardinality({c \in Callers : tres[c] = "Some"}) <= 1
  /\ \A c \in Callers : tpc[c] = "unlock" => tord[c] = 1
  /\ has_writer <=>
       (lockSeq = 0 \/ \E c \in Callers : tpc[c] = "locked" /\ tord[c] = 1)

\* The Writer was issued and dropped, a Reader is held, and a later
\* take_writer has returned None.
C11_Witness ==
  /\ \A c \in Callers : tres[c] # "Some"
  /\ \E c \in Callers : tres[c] = "Reader"
  /\ \E c \in Callers : tpc[c] = "done" /\ tres[c] = "None" /\ tord[c] = 3

\* The gate is closed by a published frame that is still draining.
Draining == drain # 0 /\ \A w \in Writers : ~Live(w)

\* C18: writer progress.  Dropping a guard without activate sets drain to 0
\* in that step; once an activate has finished, with the stale guards being
\* released, drain becomes 0; and a Writer::try_lock that meets drain = 0
\* succeeds.
C18_WriterProgress ==
  /\ [][\A w \in Writers :
          (wpc[w] = "guard" /\ wpc'[w] = "idle") => drain' = 0]_vars
  /\ Draining ~> (drain = 0)
  /\ [][\A w \in Writers :
          (drain = 0 /\ wpc[w] = "idle" /\ wpc'[w] # "idle") =>
            (wpc'[w] = "locked" /\ drain' = MAX)]_vars

\* A frame is published, no writer is live, and the last stale guard is
\* about to decrement drain from 1.
C18_Witness ==
  /\ drain = 1
  /\ \A w \in Writers : wpc[w] = "idle"
  /\ \E r \in stale : rpc[r] = "brk"

\* No Reader::try_lock begins in this step.
NoAcquire == \A r \in Readers : ~(rpc[r] = "idle" /\ rpc'[r] = "acq")

\* C19: the retry loops terminate.  While activate is installing, the
\* failed compare-and-swaps number at most original.count and at most the
\* decrements drain has taken since the swap, so the loop makes at most
\* original.count + 1 attempts; every started installation finishes; and
\* if from some point on no new Reader::try_lock begins, every started
\* release finishes.
C19_LoopsTerminate ==
  /\ [][\A w \in Writers :
          wpc'[w] = "install" =>
            /\ attempts'[w] <= woriginal'[w].count
            /\ attempts'[w] <= MAX - drain']_vars
  /\ \A w \in Writers : (wpc[w] = "install") ~> (wpc[w] = "end")
  /\ (<>[][NoAcquire]_vars) =>
       \A r \in Readers :
         (rpc[r] \in {"drop", "rel", "brk"}) ~> (rpc[r] = "idle")

\* An installation has failed original.count = 2 times and is about to make
\* its third attempt.
C19_Witness ==
  \E w \in Writers :
    /\ wpc[w] = "install"
    /\ woriginal[w].count = 2
    /\ attempts[w] = 2

====
